---------------------------- MODULE Spec2Model ----------------------------
(***************************************************************************)
(* The input decoder of rust-streamdeck (src/src/input.rs): InputManager   *)
(* turns one fixed-length raw report per handle_input call into a vector   *)
(* of InputEvents, keeping the sets pressed_keys and pressed_dials between *)
(* calls.                                                                  *)
(*                                                                         *)
(* The device descriptor (the methods of Kind: keys, dials,                *)
(* key_data_offset, ...) is not part of the available source.  It is       *)
(* modelled from the record the specification describes, one descriptor    *)
(* per layout shape, with key and dial counts scaled to NKeys and NDials.  *)
(***************************************************************************)
EXTENDS Integers, Sequences, FiniteSets, TLC

VARIABLES
    kind,           \* self.deck.kind: the session's device model
    pressed_keys,   \* InputManager.pressed_keys
    pressed_dials,  \* InputManager.pressed_dials
    cmd,            \* the report the last handle_input call read (zeros if none)
    events,         \* the Vec<InputEvent> the last call returned
    result,         \* how the last call ended
    op,             \* which decoder the last call ran
    calls,          \* handle_input calls made so far, saturating at MaxCalls
    keys_down,      \* observer: key indices whose last emitted event is Pressed
    dials_down      \* observer: dial indices whose last emitted event is Pressed

vars == <<kind, pressed_keys, pressed_dials, cmd, events, result, op, calls,
          keys_down, dials_down>>

---------------------------------------------------------------------------
(* Bounds and program constants *)

\* cmd: &[u8; 36]
ReportLen == 36

\* keys of the largest key matrix (scaled)
NKeys == 3

\* dials of the dial-bearing descriptor (scaled)
NDials == 2

\* the call counter saturates here
MaxCalls == 2

Byte == 0..255

---------------------------------------------------------------------------
(* Device descriptors *)

Kinds == {"Original", "Mini", "Mk2", "Xl", "Plus"}

\* the dial-bearing descriptor has the smallest key matrix
keys(k) == IF k = "Plus" THEN NKeys - 1 ELSE NKeys

dials(k) == IF k = "Plus" THEN NDials ELSE 0

key_direction(k) == IF k = "Original" THEN "RightToLeft" ELSE "LeftToRight"

\* "Xl": a key matrix so placed that key_data_offset plus its largest
\* logical index passes the end of the report, as a 32-key matrix does in
\* 36 bytes.
key_data_offset(k) ==
    CASE k = "Original" -> 0
      [] k = "Mini"     -> 0
      [] k = "Mk2"      -> 1
      [] k = "Xl"       -> 17
      [] k = "Plus"     -> 2

key_index_offset(k) == IF k = "Xl" THEN 1 ELSE 0

dial_press_flag_index(k) == 4

dial_data_offset(k) == 5

HasTouch(k) == k = "Plus"

touch_data_indices(k) ==
    [event_type_index |-> 4,
     x_low |-> 6, x_high |-> 7, y_low |-> 8, y_high |-> 9,
     drag_x_low |-> 10, drag_x_high |-> 11, drag_y |-> 12]

KeyWindow(k) == key_data_offset(k) .. (key_data_offset(k) + keys(k) - 1)

DialWindow(k) == dial_data_offset(k) .. (dial_data_offset(k) + dials(k) - 1)

---------------------------------------------------------------------------
(* Helpers *)

Min(S) == CHOOSE x \in S : \A y \in S : x <= y

RECURSIVE Ascending(_)
Ascending(S) == IF S = {} THEN << >>
                ELSE LET m == Min(S) IN <<m>> \o Ascending(S \ {m})

\* every order in which a HashSet's retain may visit the elements of S
Orders(S) == {s \in [1..Cardinality(S) -> S] :
                 \A i, j \in 1..Cardinality(S) : s[i] = s[j] => i = j}

Button(i, a) == [type |-> "Button", index |-> i, action |-> a]

Dial(i, a) == [type |-> "Dial", index |-> i, action |-> a]

DialTurned(i, d) == [type |-> "Dial", index |-> i, action |-> "Turned", delta |-> d]

Touch(px, py, a) == [type |-> "Touch", x |-> px, y |-> py, action |-> a]

TouchDrag(px, py, dx, dy) ==
    [type |-> "Touch", x |-> px, y |-> py, action |-> "Drag", drag_x |-> dx, drag_y |-> dy]

---------------------------------------------------------------------------
(* Fixed-width arithmetic *)

\* `x as i8` of a u8
AsI8(x) == IF x > 127 THEN x - 256 ELSE x

InU8(x) == x \in 0..255

InI8(x) == x \in -128..127

InU16(x) == x \in 0..65535

---------------------------------------------------------------------------
(* handle_button_event *)

\* the logical index of the key at report index i
ButtonIndex(k, i) ==
    IF key_direction(k) = "RightToLeft"
    THEN keys(k) - (i - key_data_offset(k))
    ELSE i + key_index_offset(k)

\* the report index the release check reads for logical index b
ReleaseProbe(k, b) == key_data_offset(k) + b

\* mutant: only the byte value 1 counts as asserted
Asserted_OnlyOne(c, k) == {i \in KeyWindow(k) : i < ReportLen /\ c[i] = 1}

\* report indices of the key window whose byte is non-zero
Asserted(c, k) == {i \in KeyWindow(k) : i < ReportLen /\ c[i] # 0}

\* mutant: the `pressed_keys.contains(&button)` skip is lost
FreshPositions_NoSkip(c, k, pk) == Asserted(c, k)

\* the positions that reach fresh_presses.insert
FreshPositions(c, k, pk) == {i \in Asserted(c, k) : ButtonIndex(k, i) \notin pk}

FreshKeys(c, k, pk) == {ButtonIndex(k, i) : i \in FreshPositions(c, k, pk)}

KeyPressedEvents(c, k, pk) ==
    LET s == Ascending(FreshPositions(c, k, pk)) IN
    [n \in 1..Len(s) |-> Button(ButtonIndex(k, s[n]), "Pressed")]

\* the Released events of the keys r, in that order
KeyReleasedEvents(r) == [n \in 1..Len(r) |-> Button(r[n], "Released")]

\* an index outside the report, or a u8 overflow in the index mapping
ButtonPanics(c, k, pk) ==
    \/ \E i \in KeyWindow(k) : i >= ReportLen
    \/ \E i \in Asserted(c, k) : ~InU8(ButtonIndex(k, i))
    \/ \E b \in pk : ReleaseProbe(k, b) >= ReportLen

\* the members of pressed_keys the retain closure drops
ReleasedKeys(c, k, pk) ==
    {b \in pk : c[ReleaseProbe(k, b)] = 0 /\ b \notin FreshKeys(c, k, pk)}

KeysAfter(c, k, pk) == (pk \ ReleasedKeys(c, k, pk)) \cup FreshKeys(c, k, pk)

\* mutant: the retain pass runs before the scan
ButtonEvents_ReleasedFirst(c, k, pk) ==
    {KeyReleasedEvents(r) \o KeyPressedEvents(c, k, pk) :
        r \in Orders(ReleasedKeys(c, k, pk))}

\* every vector the call may return: the Pressed events in scan order, then
\* the Released events in the order the HashSet is visited
ButtonEvents(c, k, pk) ==
    {KeyPressedEvents(c, k, pk) \o KeyReleasedEvents(r) :
        r \in Orders(ReleasedKeys(c, k, pk))}

---------------------------------------------------------------------------
(* handle_dial_event *)

\* mutant: the flag test is inverted
PressMode_Inverted(c, k) == c[dial_press_flag_index(k)] # 0

\* let press = cmd[kind.dial_press_flag_index()] == 0
PressMode(c, k) == c[dial_press_flag_index(k)] = 0

\* mutant: the trailing `-1` is lost
DialDelta_NoMinusOne(r) == IF r > 127 THEN -AsI8(255 - r) ELSE AsI8(r)

\* the i8 delta of a raw dial byte
DialDelta(r) == IF r > 127 THEN -AsI8(255 - r) - 1 ELSE AsI8(r)

\* an i8 overflow while computing the delta
DeltaOverflows(r) ==
    /\ r > 127
    /\ \/ ~InU8(255 - r)
       \/ ~InI8(-AsI8(255 - r))
       \/ ~InI8(-AsI8(255 - r) - 1)

TurnedPositions(c, k) == {i \in DialWindow(k) : c[i] # 0}

TurnEvents(c, k) ==
    LET s == Ascending(TurnedPositions(c, k)) IN
    [n \in 1..Len(s) |-> DialTurned(s[n] - dial_data_offset(k), DialDelta(c[s[n]]))]

\* mutant: any non-zero byte counts as a press
FreshDials_NonZero(c, k, pd) ==
    {i - dial_data_offset(k) : i \in {j \in DialWindow(k) :
        c[j] # 0 /\ (j - dial_data_offset(k)) \notin pd}}

FreshDials(c, k, pd) ==
    {i - dial_data_offset(k) : i \in {j \in DialWindow(k) :
        c[j] = 1 /\ (j - dial_data_offset(k)) \notin pd}}

DialPressedEvents(c, k, pd) ==
    LET s == Ascending(FreshDials(c, k, pd)) IN
    [n \in 1..Len(s) |-> Dial(s[n], "Pressed")]

\* the Released events of the dials r, in that order
DialReleasedEvents(r) == [n \in 1..Len(r) |-> Dial(r[n], "Released")]

ReleasedDials(c, k, pd) ==
    {d \in pd : c[dial_data_offset(k) + d] = 0 /\ d \notin FreshDials(c, k, pd)}

\* mutant: the early return of the turn branch is lost
DialsAfter_IgnoresMode(c, k, pd) ==
    (pd \ ReleasedDials(c, k, pd)) \cup FreshDials(c, k, pd)

DialsAfter(c, k, pd) ==
    IF PressMode(c, k)
    THEN (pd \ ReleasedDials(c, k, pd)) \cup FreshDials(c, k, pd)
    ELSE pd

DialPanics(c, k, pd) ==
    \/ dial_press_flag_index(k) >= ReportLen
    \/ \E i \in DialWindow(k) : i >= ReportLen
    \/ /\ ~PressMode(c, k)
       /\ \E i \in TurnedPositions(c, k) : DeltaOverflows(c[i])
    \/ /\ PressMode(c, k)
       /\ \E d \in pd : dial_data_offset(k) + d >= ReportLen

DialEvents(c, k, pd) ==
    IF PressMode(c, k)
    THEN {DialPressedEvents(c, k, pd) \o DialReleasedEvents(r) :
            r \in Orders(ReleasedDials(c, k, pd))}
    ELSE {TurnEvents(c, k)}

---------------------------------------------------------------------------
(* handle_touchscreen_event *)

\* mutant: the two bytes are assembled the other way round
Coord_LittleEndian(high, low) == low * 256 + high

\* ((high as u16) << 8) + low as u16
Coord(high, low) == high * 256 + low

TouchTypeKnown(c, k) == c[touch_data_indices(k).event_type_index] \in {1, 2, 3}

TouchX(c, k) == Coord(c[touch_data_indices(k).x_high], c[touch_data_indices(k).x_low])

TouchY(c, k) == Coord(c[touch_data_indices(k).y_high], c[touch_data_indices(k).y_low])

DragX(c, k) ==
    Coord(c[touch_data_indices(k).drag_x_high], c[touch_data_indices(k).drag_x_low])

DragY(c, k) == c[touch_data_indices(k).drag_y]

TouchPanics(c, k) ==
    \/ ~InU16(TouchX(c, k))
    \/ ~InU16(TouchY(c, k))
    \/ c[touch_data_indices(k).event_type_index] = 3 /\ ~InU16(DragX(c, k))

TouchEvents(c, k) ==
    LET t == c[touch_data_indices(k).event_type_index] IN
    CASE t = 1 -> <<Touch(TouchX(c, k), TouchY(c, k), "Short")>>
      [] t = 2 -> <<Touch(TouchX(c, k), TouchY(c, k), "Long")>>
      [] t = 3 -> <<TouchDrag(TouchX(c, k), TouchY(c, k), DragX(c, k), DragY(c, k))>>

---------------------------------------------------------------------------
(* The reports read_input may deliver.  Only the bytes a decoder can read   *)
(* vary; all other bytes are zero.                                          *)

Indices == 0..(ReportLen - 1)

\* the report with the bytes of f, and zero where f says nothing
Report(f) == [i \in Indices |-> IF i \in DOMAIN f THEN f[i] ELSE 0]

\* values a held key's byte takes
AssertedBytes == {1, 3}

\* values of byte 1 that name no category
UnknownCategories == {1, 4, 255}

\* raw dial bytes: idle, pressed or one step clockwise, and a byte that is
\* neither 0 nor 1, one step counter-clockwise
DialBytes == {0, 1, 255}

TouchTypes == {0, 1, 2, 3, 4}

\* <<high, low>> byte pairs of a 16-bit coordinate
CoordPairs == {<<0, 0>>, <<1, 44>>, <<255, 255>>}

\* the report indices a button decode can read: the key window and the
\* bytes the release check reads
ButtonPositions(k) ==
    (KeyWindow(k) \cup {ReleaseProbe(k, ButtonIndex(k, i)) : i \in KeyWindow(k)})
        \cap Indices

\* every subset of those bytes asserted, with either value
ButtonReports(k) ==
    {Report([i \in S |-> v]) : S \in SUBSET ButtonPositions(k), v \in AssertedBytes}

DialReports(k) ==
    {Report([i \in {1, dial_press_flag_index(k)} \cup DialWindow(k) |->
                IF i = 1 THEN 3
                ELSE IF i = dial_press_flag_index(k) THEN f ELSE d[i]]) :
        f \in {0, 1}, d \in [DialWindow(k) -> DialBytes]}

TouchReports(k) ==
    LET t == touch_data_indices(k) IN
    {Report([i \in {1, t.event_type_index, t.x_high, t.x_low, t.y_high, t.y_low,
                    t.drag_x_high, t.drag_x_low, t.drag_y} |->
                CASE i = 1 -> 2
                  [] i = t.event_type_index -> ty
                  [] i = t.x_high -> xy[1]
                  [] i = t.x_low -> xy[2]
                  [] i = t.y_high -> 0
                  [] i = t.y_low -> 7
                  [] i = t.drag_x_high -> dr[1]
                  [] i = t.drag_x_low -> dr[2]
                  [] i = t.drag_y -> 9]) :
        ty \in TouchTypes, xy \in CoordPairs \ {<<1, 44>>}, dr \in CoordPairs}

UnknownReports(k) == {Report([i \in {1} |-> b]) : b \in UnknownCategories}

\* the reports a session of each descriptor may read
Inputs ==
    [k \in Kinds |->
        IF k = "Plus"
        THEN ButtonReports(k) \cup DialReports(k) \cup TouchReports(k)
                 \cup UnknownReports(k)
        ELSE ButtonReports(k)]

---------------------------------------------------------------------------
(* Observers of the emitted events *)

RECURSIVE DownAfter(_, _, _)
\* the indices whose last event of type ty is Pressed, after the events evs
DownAfter(down, evs, ty) ==
    IF evs = << >> THEN down
    ELSE LET e == Head(evs) IN
         DownAfter(IF e.type # ty THEN down
                   ELSE IF e.action = "Pressed" THEN down \cup {e.index}
                   ELSE IF e.action = "Released" THEN down \ {e.index}
                   ELSE down,
                   Tail(evs), ty)

Bump(n) == IF n < MaxCalls THEN n + 1 ELSE n

---------------------------------------------------------------------------
(* InputManager::new and handle_input *)

\* no report has been read
NoReport == Report(<< >>)

Init ==
    /\ kind \in Kinds
    /\ pressed_keys = {}
    /\ pressed_dials = {}
    /\ cmd = NoReport
    /\ events = << >>
    /\ result = "None"
    /\ op = "none"
    /\ calls = 0
    /\ keys_down = {}
    /\ dials_down = {}

\* a panic unwinds out of handle_input: the session is over
Panic(c, o) ==
    /\ cmd' = c
    /\ op' = o
    /\ result' = "Panic"
    /\ events' = << >>
    /\ calls' = Bump(calls)
    /\ UNCHANGED <<kind, pressed_keys, pressed_dials, keys_down, dials_down>>

Return(c, o, evs) ==
    /\ cmd' = c
    /\ op' = o
    /\ result' = "Ok"
    /\ events' = evs
    /\ calls' = Bump(calls)
    /\ keys_down' = DownAfter(keys_down, evs, "Button")
    /\ dials_down' = DownAfter(dials_down, evs, "Dial")
    /\ UNCHANGED kind

\* mutant: a failing call forgets the pressed keys and dials
Fail_ForgetsPressed(c, o, err) ==
    /\ cmd' = c
    /\ op' = o
    /\ result' = err
    /\ events' = << >>
    /\ calls' = Bump(calls)
    /\ pressed_keys' = {}
    /\ pressed_dials' = {}
    /\ UNCHANGED <<kind, keys_down, dials_down>>

Fail(c, o, err) ==
    /\ cmd' = c
    /\ op' = o
    /\ result' = err
    /\ events' = << >>
    /\ calls' = Bump(calls)
    /\ UNCHANGED <<kind, pressed_keys, pressed_dials, keys_down, dials_down>>

\* mutant: the `kind == Kind::Plus` test is lost
Category_NoKindCheck(c, k) ==
    CASE c[1] = 0 -> "button"
      [] c[1] = 2 -> "touch"
      [] c[1] = 3 -> "dial"
      [] OTHER    -> "unsupported"

\* mutant: the touch arm calls the dial decoder
Category_TouchAsDial(c, k) ==
    IF k = "Plus"
    THEN CASE c[1] = 0 -> "button"
           [] c[1] = 2 -> "dial"
           [] c[1] = 3 -> "dial"
           [] OTHER    -> "unsupported"
    ELSE "button"

\* the category handle_input dispatches a report to
Category(c, k) ==
    IF k = "Plus"
    THEN CASE c[1] = 0 -> "button"
           [] c[1] = 2 -> "touch"
           [] c[1] = 3 -> "dial"
           [] OTHER    -> "unsupported"
    ELSE "button"

\* the error handle_input returns for an unknown report category
CategoryError == "UnsupportedInput"

\* the error handle_touchscreen_event returns when the descriptor has no
\* touch layout
TouchLayoutError == "UnsupportedInput"

\* mutant: the unknown touch type gets an error value of its own
TouchTypeError_Distinct == "UnsupportedTouchType"

\* the error handle_touchscreen_event returns for an unknown event type
TouchTypeError == "UnsupportedInput"

\* self.deck.read_input(timeout)? fails
ReadError ==
    /\ result # "Panic"
    /\ Fail(NoReport, "none", "ReadError")

DecodeButton(c) ==
    IF ButtonPanics(c, kind, pressed_keys)
    THEN Panic(c, "button")
    ELSE /\ \E evs \in ButtonEvents(c, kind, pressed_keys) : Return(c, "button", evs)
         /\ pressed_keys' = KeysAfter(c, kind, pressed_keys)
         /\ UNCHANGED pressed_dials

DecodeDial(c) ==
    IF DialPanics(c, kind, pressed_dials)
    THEN Panic(c, "dial")
    ELSE /\ \E evs \in DialEvents(c, kind, pressed_dials) : Return(c, "dial", evs)
         /\ pressed_dials' = DialsAfter(c, kind, pressed_dials)
         /\ UNCHANGED pressed_keys

DecodeTouch(c) ==
    IF ~HasTouch(kind) \/ ~TouchTypeKnown(c, kind)
    THEN Fail(c, "touch", IF ~HasTouch(kind) THEN TouchLayoutError ELSE TouchTypeError)
    ELSE IF TouchPanics(c, kind)
    THEN Panic(c, "touch")
    ELSE /\ Return(c, "touch", TouchEvents(c, kind))
         /\ UNCHANGED <<pressed_keys, pressed_dials>>

\* read_input delivers the report c
HandleInput(c) ==
    /\ result # "Panic"
    /\ CASE Category(c, kind) = "button" -> DecodeButton(c)
         [] Category(c, kind) = "touch"  -> DecodeTouch(c)
         [] Category(c, kind) = "dial"   -> DecodeDial(c)
         [] OTHER -> Fail(c, "none", CategoryError)

Next ==
    \/ ReadError
    \/ \E c \in Inputs[kind] : HandleInput(c)

Spec == Init /\ [][Next]_vars

---------------------------------------------------------------------------
(* Specifications of the pure decoders over wider byte ranges *)

InitPlus == Init /\ kind = "Plus"

\* turn-mode dial reports: one dial byte takes every value
DeltaInputs ==
    {Report([i \in {1, dial_press_flag_index("Plus"), dial_data_offset("Plus") + d} |->
                IF i = 1 THEN 3
                ELSE IF i = dial_press_flag_index("Plus") THEN 1 ELSE r]) :
        d \in 0..(NDials - 1), r \in Byte}

NextDelta == \E c \in DeltaInputs : HandleInput(c)

SpecDelta == InitPlus /\ [][NextDelta]_vars

\* bytes of a coordinate field
CoordBytes == {0, 1, 44, 128, 255}

\* touch reports: every event type with every pairing of coordinate bytes
WideTouchInputs ==
    LET t == touch_data_indices("Plus") IN
    {Report([i \in {1, t.event_type_index, t.x_high, t.x_low, t.y_high, t.y_low,
                    t.drag_x_high, t.drag_x_low, t.drag_y} |->
                CASE i = 1 -> 2
                  [] i = t.event_type_index -> ty
                  [] i = t.x_high -> xh
                  [] i = t.x_low -> xl
                  [] i = t.y_high -> 1
                  [] i = t.y_low -> 7
                  [] i = t.drag_x_high -> dh
                  [] i = t.drag_x_low -> dl
                  [] i = t.drag_y -> 9]) :
        ty \in TouchTypes, xh \in CoordBytes, xl \in CoordBytes,
        dh \in CoordBytes, dl \in CoordBytes}

\* the touch decoder keeps no state: one call per behaviour covers it
NextTouch == calls = 0 /\ \E c \in WideTouchInputs : HandleInput(c)

SpecTouch == InitPlus /\ [][NextTouch]_vars

---------------------------------------------------------------------------
(* Claims *)

EventIndices == DOMAIN events

IsKey(e, a) == e.type = "Button" /\ e.action = a

IsDial(e, a) == e.type = "Dial" /\ e.action = a

RECURSIVE AlternatesFrom(_, _, _)
\* the Pressed/Released events of type ty in evs continue an alternating
\* stream in which exactly the indices of down were last Pressed
AlternatesFrom(down, evs, ty) ==
    IF evs = << >> THEN TRUE
    ELSE LET e == Head(evs) IN
         IF e.type # ty \/ e.action \notin {"Pressed", "Released"}
         THEN AlternatesFrom(down, Tail(evs), ty)
         ELSE IF e.action = "Pressed"
         THEN e.index \notin down /\ AlternatesFrom(down \cup {e.index}, Tail(evs), ty)
         ELSE e.index \in down /\ AlternatesFrom(down \ {e.index}, Tail(evs), ty)

\* C1: for every key index and every dial index the emitted Pressed and
\* Released events alternate, beginning with Pressed, and a Released is
\* emitted only for an index recorded as pressed when the call began.
PressedReleasedAlternate ==
    [][/\ AlternatesFrom(keys_down, events', "Button")
       /\ AlternatesFrom(dials_down, events', "Dial")
       /\ \A i \in DOMAIN events' :
            /\ IsKey(events'[i], "Released") => events'[i].index \in pressed_keys
            /\ IsDial(events'[i], "Released") => events'[i].index \in pressed_dials]_vars

\* a key is released in a call after the one that pressed it, while a dial is held
AlternationWitness ==
    /\ \E i \in EventIndices : IsKey(events[i], "Released")
    /\ keys_down = {}
    /\ dials_down # {}

\* C2: a second button report with the same asserted bytes in the key window
\* yields no events and leaves pressed_keys unchanged.
IdempotentHold ==
    [][(/\ op = "button" /\ result = "Ok"
        /\ op' = "button"
        /\ Asserted(cmd', kind) = Asserted(cmd, kind))
       => (result' = "Ok" /\ events' = << >> /\ pressed_keys' = pressed_keys)]_vars

\* only the byte at p is non-zero
OnlyByte(c, p) == c[p] # 0 /\ \A i \in Indices \ {p} : c[i] = 0

\* C3: from a fresh decoder, a report asserting only one key's byte and then
\* a report clearing it yield exactly Pressed and then exactly one Released
\* for the key's index, which then is not in pressed_keys.
PressReleasePairing ==
    [][\A p \in KeyWindow(kind) :
        (/\ calls = 1 /\ op = "button" /\ result = "Ok"
         /\ OnlyByte(cmd, p)
         /\ op' = "button" /\ cmd'[p] = 0)
        => /\ events = <<Button(ButtonIndex(kind, p), "Pressed")>>
           /\ result' = "Ok"
           /\ Cardinality({i \in DOMAIN events' :
                   events'[i].index = ButtonIndex(kind, p)}) = 1
           /\ \E i \in DOMAIN events' :
                   events'[i] = Button(ButtonIndex(kind, p), "Released")
           /\ ButtonIndex(kind, p) \notin pressed_keys']_vars

\* C4: no decode call panics.
NeverPanics == result # "Panic"

\* C5: in the vector one call returns, every Pressed event precedes every
\* Released event, for keys and for dials.
PressedBeforeReleased ==
    \A i, j \in EventIndices :
        i < j => ~(events[i].action = "Released" /\ events[j].action = "Pressed")

\* a button call that returned a Pressed and a Released event
OrderingWitness ==
    /\ op = "button"
    /\ \E i, j \in EventIndices :
        i < j /\ IsKey(events[i], "Pressed") /\ IsKey(events[j], "Released")

\* the logical index the specification gives the key at report index i
DocumentedIndex(k, i) ==
    IF key_direction(k) = "RightToLeft"
    THEN keys(k) - (i - key_data_offset(k))
    ELSE (i - key_data_offset(k)) + key_index_offset(k)

\* C6: the index of a Pressed event is keys - (i - key_data_offset) for a
\* RightToLeft descriptor and (i - key_data_offset) + key_index_offset for a
\* LeftToRight one, i being the report index of the asserted byte.
DirectionMapping ==
    [][(op' = "button" /\ result' = "Ok")
       => LET s == Ascending(FreshPositions(cmd', kind, pressed_keys)) IN
          events' \in
            {[n \in 1..Len(s) |-> Button(DocumentedIndex(kind, s[n]), "Pressed")]
                \o KeyReleasedEvents(r) :
              r \in Orders(ReleasedKeys(cmd', kind, pressed_keys))}]_vars

\* a report has been read by the last call
ReportRead == result \in {"Ok", "UnsupportedInput", "Panic"}

\* C7: without dial/touch capability every report goes to the button
\* decoder whatever byte 1 is; with it, byte 1 = 0 selects the button, 2 the
\* touch and 3 the dial decoder, and any other value returns the
\* unrecognized-category error with no events and no panic.
ReportClassification ==
    ReportRead =>
        IF kind # "Plus" THEN op = "button"
        ELSE CASE cmd[1] = 0 -> op = "button"
               [] cmd[1] = 2 -> op = "touch"
               [] cmd[1] = 3 -> op = "dial"
               [] OTHER -> op = "none" /\ result = "UnsupportedInput" /\ events = << >>

\* a descriptor without capability decoded a report whose byte 1 names the
\* dial category as a button report
ClassificationWitness ==
    /\ kind # "Plus"
    /\ cmd[1] = 3
    /\ op = "button"
    /\ \E i \in EventIndices : IsKey(events[i], "Pressed")

OnlyTurned(evs) == \A i \in DOMAIN evs : IsDial(evs[i], "Turned")

OnlyPressRelease(evs) ==
    \A i \in DOMAIN evs : IsDial(evs[i], "Pressed") \/ IsDial(evs[i], "Released")

NonZeroDials(c, k) == {i \in DialWindow(k) : c[i] # 0}

\* C8, as claimed: a zero flag byte selects turn mode (only Turned events,
\* one per non-zero dial byte), a non-zero flag byte press mode (only
\* Pressed/Released events).
DialModeAsClaimed ==
    (op = "dial" /\ result = "Ok") =>
        IF cmd[dial_press_flag_index(kind)] = 0
        THEN OnlyTurned(events) /\ Len(events) = Cardinality(NonZeroDials(cmd, kind))
        ELSE OnlyPressRelease(events)

\* C8, amended: a zero flag byte selects press mode (only Pressed/Released
\* events, and every dial whose byte is 1 is recorded as pressed), a
\* non-zero flag byte turn mode (only Turned events, one per non-zero dial
\* byte, and pressed_dials untouched).
DialModeSelection ==
    [][(op' = "dial" /\ result' = "Ok") =>
        IF cmd'[dial_press_flag_index(kind)] = 0
        THEN /\ OnlyPressRelease(events')
             /\ \A i \in DialWindow(kind) :
                    cmd'[i] = 1 => (i - dial_data_offset(kind)) \in pressed_dials'
             /\ \A i \in DOMAIN events' :
                    IsDial(events'[i], "Pressed") => events'[i].index \notin pressed_dials
        ELSE /\ OnlyTurned(events')
             /\ Len(events') = Cardinality(NonZeroDials(cmd', kind))
             /\ pressed_dials' = pressed_dials]_vars

\* a zero flag byte produced a dial Pressed event
DialModeWitness ==
    /\ op = "dial"
    /\ cmd[dial_press_flag_index(kind)] = 0
    /\ \E i \in EventIndices : IsDial(events[i], "Pressed")

\* the delta the specification gives a raw dial byte
DocumentedDelta(r) == IF r <= 127 THEN r ELSE r - 256

\* C9: in turn mode every non-zero dial byte r yields Turned(r) for
\* r <= 127 and Turned(r - 256) for r >= 128, within [-128, 127] and without
\* overflow, and a zero byte yields no event.
TurnDeltaDecoding ==
    (op = "dial" /\ cmd[dial_press_flag_index(kind)] # 0) =>
        /\ result = "Ok"
        /\ LET s == Ascending(NonZeroDials(cmd, kind)) IN
           events = [n \in 1..Len(s) |->
                        DialTurned(s[n] - dial_data_offset(kind),
                                   DocumentedDelta(cmd[s[n]]))]
        /\ \A i \in EventIndices : events[i].delta \in -128..127

\* the raw byte 128 was decoded to -128
TurnDeltaWitness ==
    /\ op = "dial"
    /\ \E i \in DialWindow(kind) : cmd[i] = 128
    /\ \E i \in EventIndices : IsDial(events[i], "Turned") /\ events[i].delta = -128

\* C10: a touch report whose event-type byte is 1, 2 or 3 returns exactly
\* one Touch event with action Short, Long or Drag; any other byte returns
\* an error and no events; x and the drag end x are (high << 8) + low, within
\* u16.
TouchDecoding ==
    LET t == touch_data_indices(kind) IN
    op = "touch" =>
        IF cmd[t.event_type_index] \in {1, 2, 3}
        THEN /\ result = "Ok"
             /\ Len(events) = 1
             /\ events[1].type = "Touch"
             /\ events[1].action =
                    (CASE cmd[t.event_type_index] = 1 -> "Short"
                       [] cmd[t.event_type_index] = 2 -> "Long"
                       [] cmd[t.event_type_index] = 3 -> "Drag")
             /\ events[1].x = cmd[t.x_high] * 256 + cmd[t.x_low]
             /\ events[1].x \in 0..65535
             /\ cmd[t.event_type_index] = 3 =>
                    /\ events[1].drag_x = cmd[t.drag_x_high] * 256 + cmd[t.drag_x_low]
                    /\ events[1].drag_x \in 0..65535
        ELSE result = "UnsupportedInput" /\ events = << >>

\* drag_x_high = 0x01 and drag_x_low = 0x2C gave drag x = 300
TouchWitness ==
    /\ op = "touch"
    /\ cmd[touch_data_indices(kind).drag_x_high] = 1
    /\ cmd[touch_data_indices(kind).drag_x_low] = 44
    /\ Len(events) = 1
    /\ events[1].action = "Drag"
    /\ events[1].drag_x = 300

\* the call that led to this state failed on an unknown report category
UnknownCategoryFailure ==
    /\ kind = "Plus"
    /\ calls > 0
    /\ result \notin {"ReadError", "Panic"}
    /\ cmd[1] \notin {0, 2, 3}

\* the call that led to this state failed on an unknown touch event type
UnknownTouchTypeFailure ==
    /\ op = "touch"
    /\ cmd[touch_data_indices(kind).event_type_index] \notin {1, 2, 3}

\* C11 as claimed: an unknown report category and an unknown touch event
\* type return different error values, so a call failing on the second right
\* after a call failing on the first returns another value.
ErrorKindsDistinct ==
    [][(UnknownCategoryFailure /\ UnknownTouchTypeFailure') =>
           result' # result]_vars

\* C11: an unknown report category and a touch event type outside {1, 2, 3}
\* both return the one error value UnsupportedInput, with no events; the
\* error value does not tell the two causes apart.
SingleErrorKind ==
    (UnknownCategoryFailure \/ UnknownTouchTypeFailure) =>
        result = "UnsupportedInput" /\ events = << >>

\* a touch report with event type 4 was refused with UnsupportedInput
SingleErrorWitness ==
    /\ UnknownTouchTypeFailure
    /\ cmd[touch_data_indices(kind).event_type_index] = 4
    /\ result = "UnsupportedInput"

\* C12: after every successful button decode, pressed_keys is exactly the set
\* of logical indices of the key-window bytes that are non-zero in the report
\* just decoded.
PressedKeysMatchWindow ==
    (op = "button" /\ result = "Ok") =>
        pressed_keys = {ButtonIndex(kind, i) : i \in {j \in KeyWindow(kind) : cmd[j] # 0}}

\* C13: decoding a button report whose whole key window is zero emits a
\* Released event for every index that was in pressed_keys and leaves
\* pressed_keys empty, whatever the bytes outside the key window are.
ReleaseConvergence ==
    [][(op' = "button" /\ \A j \in KeyWindow(kind) : cmd'[j] = 0) =>
           /\ result' = "Ok"
           /\ pressed_keys' = {}
           /\ \A b \in pressed_keys :
                  \E n \in 1..Len(events') : events'[n] = Button(b, "Released")]_vars

\* C14: a dial report decoded in turn mode (flag byte non-zero) leaves
\* pressed_dials and pressed_keys exactly as they were before the call,
\* whatever the bytes of the dial window are.
TurnLeavesState ==
    [][(op' = "dial" /\ cmd'[dial_press_flag_index(kind)] # 0) =>
           /\ pressed_dials' = pressed_dials
           /\ pressed_keys' = pressed_keys]_vars

\* a turn-mode report was decoded to a Turned event while a dial was held
TurnLeavesStateWitness ==
    /\ op = "dial"
    /\ cmd[dial_press_flag_index(kind)] # 0
    /\ pressed_dials # {}
    /\ \E n \in EventIndices : IsDial(events[n], "Turned")

\* the positions in evs of the events of dial d
DialEventsOf(evs, d) ==
    {n \in 1..Len(evs) : evs[n].type = "Dial" /\ evs[n].index = d}

\* C15: in a press-mode dial report (flag byte zero), a dial whose byte is 1
\* and that is not in pressed_dials emits Pressed and is added; a dial whose
\* byte is 1 and that is in pressed_dials, in particular one whose byte was 1
\* in the press-mode report before, emits nothing; a dial in pressed_dials
\* whose byte is 0 emits Released and is removed; a dial whose byte is
\* neither 0 nor 1 emits nothing and keeps its membership.
DialEdgeDetection ==
    [][(op' = "dial" /\ cmd'[dial_press_flag_index(kind)] = 0) =>
           /\ result' = "Ok"
           /\ \A d \in 0..(dials(kind) - 1) :
                LET b  == cmd'[dial_data_offset(kind) + d]
                    ns == DialEventsOf(events', d)
                IN  /\ (b = 1 /\ d \notin pressed_dials) =>
                           /\ Cardinality(ns) = 1
                           /\ \A n \in ns : events'[n].action = "Pressed"
                           /\ d \in pressed_dials'
                    /\ (b = 1 /\ d \in pressed_dials) =>
                           ns = {} /\ d \in pressed_dials'
                    /\ ( /\ b = 1
                         /\ op = "dial" /\ result = "Ok"
                         /\ cmd[dial_press_flag_index(kind)] = 0
                         /\ cmd[dial_data_offset(kind) + d] = 1 ) =>
                           ns = {}
                    /\ (b = 0 /\ d \in pressed_dials) =>
                           /\ Cardinality(ns) = 1
                           /\ \A n \in ns : events'[n].action = "Released"
                           /\ d \notin pressed_dials'
                    /\ b \notin {0, 1} =>
                           /\ ns = {}
                           /\ (d \in pressed_dials') = (d \in pressed_dials)]_vars

\* a press-mode report released one dial while a held dial whose byte is
\* neither 0 nor 1 stayed pressed
DialEdgeWitness ==
    /\ op = "dial"
    /\ cmd[dial_press_flag_index(kind)] = 0
    /\ \E d \in pressed_dials : cmd[dial_data_offset(kind) + d] = 255
    /\ \E n \in EventIndices : IsDial(events[n], "Released")

\* C16: a button report never changes pressed_dials, a dial report never
\* changes pressed_keys, and a touch report changes neither set.
DispatchFrame ==
    [][(result' \notin {"ReadError", "None"}) =>
           /\ (kind # "Plus" \/ cmd'[1] = 0) => pressed_dials' = pressed_dials
           /\ (kind = "Plus" /\ cmd'[1] = 3) => pressed_keys' = pressed_keys
           /\ (kind = "Plus" /\ cmd'[1] = 2) =>
                  /\ pressed_keys' = pressed_keys
                  /\ pressed_dials' = pressed_dials]_vars

\* a touch report was decoded while a key and a dial were held
DispatchFrameWitness ==
    /\ op = "touch"
    /\ result = "Ok"
    /\ pressed_keys # {}
    /\ pressed_dials # {}

\* C17: a handle_input call that returns an error (a failed read, an
\* unknown report category, an unknown touch event type) emits no events and
\* leaves pressed_keys and pressed_dials exactly as before the call.
ErrorLeavesState ==
    [][result' \in {"ReadError", CategoryError, TouchLayoutError, TouchTypeError} =>
           /\ events' = << >>
           /\ pressed_keys' = pressed_keys
           /\ pressed_dials' = pressed_dials]_vars

\* a touch report was refused while a key and a dial were held
ErrorLeavesStateWitness ==
    /\ op = "touch"
    /\ result = TouchTypeError
    /\ pressed_keys # {}
    /\ pressed_dials # {}

\* C18: the event sequence a decode call returns is fixed by the decoder
\* state and the report: every sequence the call can return from the state
\* before it is the one it returned, the order of the Released events
\* included.
DecodeDeterministic ==
    [][result' = "Ok" =>
           /\ op' = "button" =>
                  \A evs \in ButtonEvents(cmd', kind, pressed_keys) : evs = events'
           /\ op' = "dial" =>
                  \A evs \in DialEvents(cmd', kind, pressed_dials) : evs = events']_vars

\* C19: a new decoder has pressed_keys and pressed_dials empty, and when its
\* first call decodes a button report it returns exactly one Pressed event
\* for each non-zero byte of the key window, in ascending window position,
\* and no Released event.
SessionStart ==
    /\ calls = 0 => pressed_keys = {} /\ pressed_dials = {}
    /\ (calls = 1 /\ op = "button") =>
           LET s == Ascending({i \in KeyWindow(kind) : cmd[i] # 0}) IN
           /\ result = "Ok"
           /\ events = [n \in 1..Len(s) |-> Button(ButtonIndex(kind, s[n]), "Pressed")]

\* the first report had two keys held, one of them with a byte other than 1
SessionStartWitness ==
    /\ calls = 1
    /\ op = "button"
    /\ Len(events) = 2
    /\ \E i \in KeyWindow(kind) : cmd[i] = 3

=============================================================================
